---- MODULE Spec2Model ----
(***************************************************************************)
(* A model of the yt-archiver archiving engine (package ytarchiver):       *)
(* the channel cache and its paginated enumeration (cachedChannel.Foreach),*)
(* the worker pool (archiveMultiplexer), the download invoker              *)
(* (youtubeDownload), the disk reconciler (crawlRoot) and the orchestrator *)
(* (Archiver.Archive).                                                     *)
(*                                                                         *)
(* The orchestrator goroutine is modelled by a program counter `pc`; each  *)
(* worker goroutine of the current pool by wk[w].pc.  The remote API, the  *)
(* downloader process and the caller's context are the environment.        *)
(***************************************************************************)
EXTENDS Integers, Sequences, FiniteSets, Bags, TLC

(***************************************************************************)
(* Bounds of the model.                                                    *)
(***************************************************************************)
\* Largest number of configured channels (len(cfg.Channels)).
MaxChannels == 2
\* Largest cfg.MaxParallel explored (pool size and job-queue capacity).
MaxPool == 2
\* Largest cfg.MaxRetries explored.
MaxRetry == 2
\* Number of calls of Archive in one process lifetime.
MaxCycles == 2
\* Largest number of items in a channel's uploads feed.
MaxUploads == 3
\* Items per page of the uploads feed (MaxResults, scaled down).
PageLen == 2

\* The universe of video IDs.
VideoIDs == {"A", "B", "C"}
\* The ID carried by an error that is not a videoError.
NoID == ""

VARIABLES
    \* ---- configuration (Config, fixed after construction)
    cfg,        \* [Channels, MaxParallel, MaxRetries, Selectors, ChanSelectors,
                \*  Cancellable]
    \* ---- environment
    uploads,    \* uploads[ch]: the channel's uploads feed, a sequence of video IDs
    status,     \* status[v]: liveBroadcastContent of video v
    disk,       \* disk[ch]: the channel's directory listing at startup
    ctxDone,    \* the context handed to NewArchiverWithContext is cancelled
    \* ---- Archiver
    chancache,  \* set of channels with a cache entry
    Videos,     \* Videos[ch]: cachedChannel.Videos, [isNil, ids]
    \* ---- Archive (orchestrator goroutine)
    pc, cycle, chIdx,
    fe,         \* Foreach's locals: [full, n, page, k, upcoming]
    e,          \* the result of Foreach: <<>> (nil) or <<error>>
    cerr,       \* channelError.Errors of the current channel
    err,        \* the ArchiveError being built
    ret,        \* what Archive returned: [done, isNil, errs]
    \* ---- archiveMultiplexer (the pool of the current channel)
    workChan,   \* buffered channel of jobs
    closed,     \* workChan is closed
    wk,         \* wk[w]: [pc, job, errs] of worker w
    waitI,      \* Wait's loop counter
    waitErrs,   \* Wait's errs
    leaked,     \* workers of earlier pools still blocked on their job queue
    \* ---- youtubeDownload called on its own
    call,       \* [outs, done, err, calls]
    \* ---- the callback handed to Foreach
    cmdErrs,    \* the video IDs for which cmd returns an error
    \* ---- history (not read by the program)
    h

vars == <<cfg, uploads, status, disk, ctxDone, chancache, Videos, pc, cycle,
          chIdx, fe, e, cerr, err, ret, workChan, closed, wk, waitI, waitErrs,
          leaked, call, cmdErrs, h>>

cfgVars  == <<cfg>>
envVars  == <<uploads, status, disk, ctxDone>>
poolVars == <<workChan, closed, wk, waitI, waitErrs>>

(***************************************************************************)
(* Values.                                                                 *)
(***************************************************************************)
\* liveBroadcastContent values of the remote API.
LiveStatus == {"none", "upcoming", "live", "completed"}

\* An error value: its sentinel (what errors.Is matches), the video ID it
\* carries (only a videoError carries one), its cause and, for an
\* enumeration error, the page counter.
Error(kind, vid, cause, page) ==
    [kind |-> kind, VideoID |-> vid, cause |-> cause, page |-> page]

\* Mutant of the error recorded for a channel without cache entry: the
\* sentinel of a failed cache build.
ErrCacheBuild == Error("ErrCacheBuild", NoID, "", 0)

ErrCacheMiss == Error("ErrCacheMiss", NoID, "", 0)
ErrEmptyResults == "ErrEmptyResults"

\* The error youtubeDownload builds: it wraps ErrYoutubeDownloader and the
\* cause; it is not a videoError and carries no video ID.
DownloaderError(cause) == Error("ErrYoutubeDownloader", NoID, cause, 0)

\* errors.Is(ve, ErrVideo): only a videoError unwraps to ErrVideo.
IsVideoError(ve) == ve.kind = "ErrVideo"

\* The outcomes of one run of the downloader process: it exits with code
\* zero, it cannot be started, or it exits with a non-zero code.
AttemptOutcomes == {"ok", "spawn", "exit"}
\* The outcomes explored for the downloads of an archive cycle.
JobOutcomes == {"ok", "exit"}

(***************************************************************************)
(* youtubeDownload: outs[i] is the outcome of the i-th invocation of the   *)
(* downloader.  The loop runs while i < cfg.MaxRetries; `max` is computed  *)
(* but not used by the loop.  The result is the error returned (<<>> for   *)
(* nil) and the number of invocations made.                                *)
(***************************************************************************)
RECURSIVE downloadLoop(_, _, _, _)
downloadLoop(maxRetries, outs, i, lastErr) ==
    IF i < maxRetries
    THEN IF outs[i + 1] = "ok"
         THEN [err |-> <<>>, calls |-> i + 1]
         ELSE downloadLoop(maxRetries, outs, i + 1,
                           <<DownloaderError(outs[i + 1])>>)
    ELSE [err |-> lastErr, calls |-> i]

\* Mutant: the downloader is invoked once (when at all) and not retried.
youtubeDownloadOnce(maxRetries, outs) ==
    downloadLoop(IF maxRetries = 0 THEN 0 ELSE 1, outs, 0, <<>>)

youtubeDownload(maxRetries, outs) == downloadLoop(maxRetries, outs, 0, <<>>)

(***************************************************************************)
(* Selectors.  A VideoSelector is a predicate on a video; it is modelled   *)
(* by the set of video IDs it selects.                                     *)
(***************************************************************************)
Should(m, v) == v \in m

\* The selector loop of Archive's visit callback: it ranges over
\* a.Selectors, the selectors of the embedded Config.
SelectorsApplied(ch) == cfg.Selectors

Selected(ch, v) ==
    \A i \in DOMAIN SelectorsApplied(ch) : Should(SelectorsApplied(ch)[i], v)

\* What the specification asks for: channel-scoped and global selectors.
AllSelectors(ch) == cfg.ChanSelectors[ch] \o cfg.Selectors

(***************************************************************************)
(* The uploads feed, as the remote API pages it.                           *)
(***************************************************************************)
Min(a, b) == IF a < b THEN a ELSE b

\* Items of page n (1-based) of channel ch's uploads feed.
PageItems(ch, n) ==
    SubSeq(uploads[ch], (n - 1) * PageLen + 1, Min(n * PageLen, Len(uploads[ch])))

\* The response for page n carries a next-page token.
HasNextPage(ch, n) == n * PageLen < Len(uploads[ch])

\* Number of pages the API serves for the feed (an empty feed is one
\* response without items).
NumPages(ch) ==
    IF Len(uploads[ch]) = 0 THEN 1
    ELSE (Len(uploads[ch]) + PageLen - 1) \div PageLen

Range(s) == {s[i] : i \in DOMAIN s}

\* checkUpcoming: the videos of the page that are neither "none" nor
\* "completed".
IsUpcoming(st) == st # "none" /\ st # "completed"
checkUpcoming(items) == {v \in Range(items) : IsUpcoming(status[v])}

(***************************************************************************)
(* cachedChannel.Videos: nil, or a set of video IDs.                       *)
(***************************************************************************)
NilVideos == [isNil |-> TRUE, ids |-> {}]
MakeVideos == [isNil |-> FALSE, ids |-> {}]

\* Mutant of delete: a map that becomes empty becomes nil.
DeleteToNil(vids, S) ==
    IF vids.ids \ S = {} THEN NilVideos ELSE [vids EXCEPT !.ids = @ \ S]

\* delete(m, id) for every id of S: the map stays a map.
Delete(vids, S) == [vids EXCEPT !.ids = @ \ S]

\* Mutants of the seen check: it never finds the ID; it only finds the IDs
\* submitted in this cycle.
AlreadySeenNever(ch, v) == FALSE
AlreadySeenThisCycle(ch, v) == v \in Range(h.run.submitted)

\* _, ok := cc.Videos[id]
AlreadySeen(ch, v) == v \in Videos[ch].ids

\* Mutant of Foreach's branch: every page is walked in every cycle.
FullHistoryAlways(ch) == TRUE

\* Foreach's branch: c.Videos == nil walks every page.
FullHistory(ch) == Videos[ch].isNil

(***************************************************************************)
(* crawlRoot.  os.ReadDir gives [ok, entries]: ok is FALSE when it returns *)
(* an error.  A directory entry is [name, isDir]; a name is a sequence of  *)
(* tokens in which "." stands for the dot byte and every other token for a *)
(* dot-free piece of the name (no two pieces are adjacent).                *)
(***************************************************************************)
\* strings.HasSuffix(name, ".json")
HasSuffixJson(name) ==
    Len(name) >= 2 /\ name[Len(name) - 1] = "." /\ name[Len(name)] = "json"

\* strings.IndexByte(name, '.') as a 1-based token index, 0 for -1.
RECURSIVE IndexDot(_, _)
IndexDot(name, i) ==
    IF i > Len(name) THEN 0
    ELSE IF name[i] = "." THEN i ELSE IndexDot(name, i + 1)

\* name[:estart] when a dot is found, else the whole name.
CrawlName(name) ==
    LET estart == IndexDot(name, 1)
    IN  IF estart = 1 THEN "" ELSE name[1]

\* Mutant of the skip test: only directories are skipped.
CrawlSkipsDirs(f) == f.isDir

\* Which entries crawlRoot's inner loop skips.
CrawlSkips(f) == f.isDir \/ HasSuffixJson(f.name)

\* cch.Videos is made when the listing is not empty.
CrawlMakes(vids, dir) == Cardinality(dir.entries) # 0 /\ vids.isNil

\* Mutant of the loop body: the directory is not looked at.
crawlChannelNothing(vids, dir) == vids

\* The effect of crawlRoot's loop body on one channel's Videos.
crawlChannel(vids, dir) ==
    IF ~dir.ok THEN vids
    ELSE LET made == IF CrawlMakes(vids, dir) THEN MakeVideos ELSE vids
             names == {CrawlName(f.name) : f \in {g \in dir.entries : ~CrawlSkips(g)}}
         IN  [made EXCEPT !.ids = @ \cup names]

(***************************************************************************)
(* Initial states: the archiver just before NewArchiverWithContext calls   *)
(* crawlRoot.  The configuration, the feeds, the directory listings and    *)
(* the videos' live status are inputs.                                     *)
(***************************************************************************)
ChanIDs == 1 .. MaxChannels

\* cfg.Channels: the first n channels, in order.
ChannelLists == {[i \in 1 .. n |-> i] : n \in 1 .. MaxChannels}

\* Selector lists a configuration may hold.
SelectorLists == {<<>>, <<{"A"}>>}

\* Feeds: the sequences of at most MaxUploads video IDs (an ID may repeat)
\* that name their IDs in order of first appearance, "A" first.
IDOrder == <<"A", "B", "C">>
IDIndex(v) == CHOOSE i \in DOMAIN IDOrder : IDOrder[i] = v
InOrder(f) ==
    \A i \in DOMAIN f :
        IDIndex(f[i]) <= 1 + Cardinality({f[j] : j \in 1 .. i - 1})
Feeds == {f \in UNION {[1 .. n -> VideoIDs] : n \in 0 .. MaxUploads} : InOrder(f)}

\* Directory listings of a channel directory.
FileMp4(v)  == [name |-> <<v, ".", "mp4">>, isDir |-> FALSE]
FileInfo(v) == [name |-> <<v, ".", "info", ".", "json">>, isDir |-> FALSE]
FileChannelJson == [name |-> <<"channel", ".", "json">>, isDir |-> FALSE]
SubDir == [name |-> <<"tmp">>, isDir |-> TRUE]
NoDirectory == [ok |-> FALSE, entries |-> {}]
DirListings ==
    { NoDirectory,
      [ok |-> TRUE, entries |-> {}],
      [ok |-> TRUE, entries |-> {FileMp4("A"), FileInfo("A")}],
      [ok |-> TRUE, entries |-> {FileMp4("A"), FileMp4("B")}],
      [ok |-> TRUE, entries |-> {FileChannelJson}],
      [ok |-> TRUE, entries |-> {FileMp4("B"), FileInfo("B"), FileChannelJson, SubDir}],
      [ok |-> TRUE, entries |-> {SubDir}] }

NoFe == [full |-> FALSE, n |-> 0, page |-> <<>>, k |-> 0, upcoming |-> {}]
NoWorker == [pc |-> "exit", job |-> NoID, errs |-> <<>>]
\* Archive has not returned yet.
NoRet == [done |-> FALSE, isNil |-> TRUE, errs |-> <<>>]

\* The history of one channel run.
\*   ch           the channel (0: none)
\*   seenAtStart  Videos of the channel when Foreach was entered
\*   liveAtStart  the videos that were upcoming or live at that moment
\*   requests     page requests made
\*   checked      IDs of the pages checkUpcoming has answered for
\*   skipped      IDs foreach skipped as upcoming, in order
\*   visited      IDs handed to the visit callback, in order
\*   evaluated    IDs handed to a selector
\*   submitted    IDs handed to Submit, in order
\*   dl           the downloads that returned: [VideoID, err, calls]
\*   sent         sent[w]: error lists worker w has sent
NoRun == [ch |-> 0, seenAtStart |-> NilVideos, liveAtStart |-> {},
          requests |-> 0, checked |-> {}, skipped |-> <<>>, visited |-> <<>>,
          evaluated |-> {}, submitted |-> <<>>, dl |-> {},
          sent |-> [w \in 1 .. MaxPool |-> 0]]

\*   run          the current (or last) channel run of this Archive call
\*   recorded     recorded[c]: the errors that occurred for channel c in this
\*                Archive call (cache miss, enumeration error, download failure)
\*   processed    the channels whose loop iteration is over, in order
\*   prevFailed   prevFailed[c]: IDs whose download failed in c's last run
\*   okEver       okEver[c]: IDs whose download has succeeded
\*   unfailed     unfailed[c]: IDs submitted with no failed download since
\*   skippedLive  skippedLive[c]: IDs foreach has skipped as upcoming
\*   rejected     rejected[c]: IDs a selector has objected to
\*   unvisited    unvisited[c]: IDs on the pages a full-history enumeration
\*                of c had not walked when it halted with an error
InitHistory ==
    [run |-> NoRun,
     skippedLive |-> [c \in ChanIDs |-> {}],
     rejected |-> [c \in ChanIDs |-> {}],
     unvisited |-> [c \in ChanIDs |-> {}],
     recorded |-> [c \in ChanIDs |-> EmptyBag],
     processed |-> <<>>,
     prevFailed |-> [c \in ChanIDs |-> {}],
     okEver |-> [c \in ChanIDs |-> {}],
     unfailed |-> [c \in ChanIDs |-> {}]]

\* Most inputs in which a configuration may differ from the plain one (one
\* channel, one worker, one attempt, no selector, no directory, every video
\* published, every channel cached).
MaxFeatures == 2

Bit(b) == IF b THEN 1 ELSE 0

RECURSIVE SumLen(_, _)
SumLen(f, S) ==
    IF S = {} THEN 0
    ELSE LET c == CHOOSE x \in S : TRUE IN Len(f[c]) + SumLen(f, S \ {c})
TotalUploads == SumLen(uploads, ChanIDs)
Configured(c) == c <= Len(cfg.Channels)

CfgFeatures ==
    (Len(cfg.Channels) - 1) + (cfg.MaxParallel - 1) + Bit(cfg.Cancellable)
    + (IF cfg.MaxRetries >= 1 THEN cfg.MaxRetries - 1 ELSE 1)
    + Bit(cfg.Selectors # <<>>)
    + Cardinality({c \in ChanIDs : cfg.ChanSelectors[c] # <<>>})

InputFeatures ==
    CfgFeatures
    + Cardinality({v \in VideoIDs : status[v] # "none"})
    + Cardinality({c \in ChanIDs : disk[c].ok})
    + Cardinality({c \in ChanIDs : Configured(c) /\ c \notin chancache})

InitInputs ==
    /\ cfg \in [Channels : ChannelLists, MaxParallel : 1 .. MaxPool,
                MaxRetries : 0 .. MaxRetry, Selectors : SelectorLists,
                ChanSelectors : [ChanIDs -> SelectorLists],
                \* NewArchiver passes context.Background(), which is never
                \* cancelled; NewArchiverWithContext the caller's context.
                Cancellable : BOOLEAN]
    /\ CfgFeatures <= MaxFeatures
    /\ \A c \in ChanIDs : ~Configured(c) => cfg.ChanSelectors[c] = <<>>
    /\ uploads \in [ChanIDs -> Feeds]
    /\ \A c \in ChanIDs : ~Configured(c) => uploads[c] = <<>>
    /\ TotalUploads <= MaxUploads
    /\ status \in [VideoIDs -> {"none", "upcoming"}]
    /\ \A v \in VideoIDs :
          status[v] # "none" => \E c \in ChanIDs : v \in Range(uploads[c])
    /\ disk \in [ChanIDs -> DirListings]
    /\ \A c \in ChanIDs : ~Configured(c) => disk[c] = NoDirectory
    \* Channels is an exported field: the caller may have replaced it since
    \* the cache was built, so a configured channel may have no cache entry.
    /\ chancache \in SUBSET {c \in ChanIDs : Configured(c)}
    /\ InputFeatures <= MaxFeatures

InitProgram ==
    /\ ctxDone = FALSE
    /\ Videos = [c \in ChanIDs |-> NilVideos]
    /\ pc = "new" /\ cycle = 0 /\ chIdx = 0
    /\ fe = NoFe /\ e = <<>> /\ cerr = <<>> /\ err = <<>>
    /\ ret = NoRet
    /\ workChan = <<>> /\ closed = FALSE
    /\ wk = [w \in 1 .. MaxPool |-> NoWorker]
    /\ waitI = 0 /\ waitErrs = <<>> /\ leaked = 0
    /\ h = InitHistory

\* youtubeDownload is not called on its own.
NoCall == [outs |-> <<>>, done |-> FALSE, err |-> <<>>, calls |-> 0]

\* Archive's visit callback returns nil on every path.
ArchiveCmdErrs == {}

Init == InitInputs /\ InitProgram /\ call = NoCall /\ cmdErrs = ArchiveCmdErrs

(***************************************************************************)
(* NewArchiverWithContext, last step: crawlRoot over the channels the      *)
(* cache was built for.                                                    *)
(***************************************************************************)
CrawlRoot ==
    /\ pc = "new"
    /\ Videos' = [c \in ChanIDs |->
                    IF c \in chancache THEN crawlChannel(Videos[c], disk[c])
                    ELSE Videos[c]]
    /\ pc' = "idle"
    /\ UNCHANGED <<call, cmdErrs, cfgVars, envVars, poolVars, chancache, cycle, chIdx, fe, e,
                   cerr, err, ret, leaked, h>>

(***************************************************************************)
(* Archiver.Archive, the orchestrator.                                     *)
(***************************************************************************)
\* The channel of the current loop iteration.
Ch == cfg.Channels[chIdx]
Workers == 1 .. cfg.MaxParallel

\* Archive is called: var err ArchiveError.
ArchiveStart ==
    /\ pc = "idle" /\ cycle < MaxCycles
    /\ cycle' = cycle + 1
    /\ err' = <<>> /\ chIdx' = 1 /\ pc' = "loop"
    /\ ret' = NoRet
    /\ h' = [h EXCEPT !.run = NoRun,
                      !.recorded = [c \in ChanIDs |-> EmptyBag],
                      !.processed = <<>>]
    /\ UNCHANGED <<call, cmdErrs, cfgVars, envVars, poolVars, chancache, Videos, fe, e, cerr,
                   leaked>>

\* Loop head, the channel has no cache entry: the pool has been created and
\* its workers started, the miss is recorded and the loop continues; Done
\* and Wait are not called, so the workers stay blocked on the job queue.
ChannelMiss ==
    /\ pc = "loop" /\ chIdx <= Len(cfg.Channels)
    /\ Ch \notin chancache
    /\ leaked' = leaked + cfg.MaxParallel
    /\ err' = Append(err, [ChannelID |-> Ch, Errors |-> <<ErrCacheMiss>>])
    /\ chIdx' = chIdx + 1
    /\ h' = [h EXCEPT !.recorded[Ch] = @ (+) SetToBag({ErrCacheMiss}),
                      !.processed = Append(@, Ch)]
    /\ UNCHANGED <<call, cmdErrs, cfgVars, envVars, poolVars, chancache, Videos, pc, cycle, fe,
                   e, cerr, ret>>

\* newArchiveMultiplexer: an empty job queue and MaxParallel workers.
NewPool == [w \in 1 .. MaxPool |->
              IF w <= cfg.MaxParallel
              THEN [pc |-> "recv", job |-> NoID, errs |-> <<>>]
              ELSE NoWorker]

\* Loop head, the channel is cached: create the pool and enter Foreach,
\* which picks its branch from c.Videos == nil.
ChannelStart ==
    /\ pc = "loop" /\ chIdx <= Len(cfg.Channels)
    /\ Ch \in chancache
    /\ workChan' = <<>> /\ closed' = FALSE /\ wk' = NewPool
    /\ waitI' = 0 /\ waitErrs' = <<>>
    /\ cerr' = <<>> /\ e' = <<>>
    /\ fe' = [NoFe EXCEPT !.full = FullHistory(Ch)]
    /\ pc' = "foreach"
    /\ h' = [h EXCEPT !.run = [NoRun EXCEPT
                 !.seenAtStart = Videos[Ch],
                 !.liveAtStart = {v \in VideoIDs : IsUpcoming(status[v])},
                 !.ch = Ch]]
    /\ UNCHANGED <<call, cmdErrs, cfgVars, envVars, chancache, Videos, cycle, chIdx, err, ret,
                   leaked>>

\* The error Foreach returns: the full-history branch names the page counter.
ForeachError(cause, n) == Error("foreach", NoID, cause, IF fe.full THEN n ELSE 0)

\* Outcomes of one page request (rq.Pages' next request, or rq.Do): the
\* request fails, or a response arrives, with an HTTP error status or not.
RequestOutcomes == {"ok", "transport", "http"}

\* rq.Pages sends its requests under a.ctx: once the context is done they
\* fail.  rq.Do, of the first-page branch, carries no context.
PossibleOutcomes == IF fe.full /\ ctxDone THEN {"transport"} ELSE RequestOutcomes

\* Outcomes of the videos.list request of checkUpcoming, which carries no
\* context: it fails or it is answered.
CheckOutcomes == {"ok", "checkUpcoming"}

\* What Foreach does with the answer to the request for page p under outcome
\* o, up to the call of checkUpcoming: the error it returns (<<>> for none)
\* and the page counter afterwards.
PageResult(o, p) ==
    LET items == PageItems(Ch, p)
    IN  CASE o = "transport" -> [err |-> <<ForeachError("transport", fe.n)>>, n |-> fe.n]
          [] o = "http" -> [err |-> <<ForeachError("http", p)>>, n |-> p]
          [] Len(items) = 0 -> [err |-> <<ForeachError(ErrEmptyResults, p)>>, n |-> p]
          [] OTHER -> [err |-> <<>>, n |-> p]

\* The IDs on the pages of channel ch's feed from page p on.
FromPage(ch, p) ==
    Range(SubSeq(uploads[ch], (p - 1) * PageLen + 1, Len(uploads[ch])))

\* One page is requested (rq.Pages' next request, or rq.Do) and answered;
\* foreach starts on the response: HTTP status, emptiness, and the
\* videos.list request of checkUpcoming is sent.
RequestPage ==
    /\ pc = "foreach"
    /\ \E o \in PossibleOutcomes :
         LET p == fe.n + 1
             r == PageResult(o, p)
         IN  /\ IF r.err # <<>>
                THEN /\ e' = r.err
                     /\ pc' = "close"
                     /\ fe' = [fe EXCEPT !.n = r.n]
                     /\ h' = [h EXCEPT !.run.requests = @ + 1,
                                       !.recorded[Ch] = @ (+) SetToBag({r.err[1]}),
                                       !.unvisited[Ch] =
                                          IF fe.full THEN @ \cup FromPage(Ch, p)
                                          ELSE @]
                ELSE /\ e' = e
                     /\ pc' = "upcoming"
                     /\ fe' = [fe EXCEPT !.n = p, !.page = PageItems(Ch, p),
                                         !.k = 0, !.upcoming = {}]
                     /\ h' = [h EXCEPT !.run.requests = @ + 1]
    /\ UNCHANGED <<call, cmdErrs, cfgVars, envVars, poolVars, chancache, Videos, cycle, chIdx,
                   cerr, err, ret, leaked>>

\* The videos.list request of checkUpcoming returns: on an error foreach
\* returns it; else the upcoming set is built from the live status the
\* videos of the page have now, and the loop over the items starts.
CheckUpcomingReturns ==
    /\ pc = "upcoming"
    /\ \E o \in CheckOutcomes :
         IF o = "checkUpcoming"
         THEN /\ e' = <<ForeachError("checkUpcoming", fe.n)>>
              /\ pc' = "close"
              /\ fe' = fe
              /\ h' = [h EXCEPT !.recorded[Ch] =
                                   @ (+) SetToBag({ForeachError("checkUpcoming", fe.n)}),
                                !.unvisited[Ch] =
                                   IF fe.full THEN @ \cup FromPage(Ch, fe.n)
                                   ELSE @]
         ELSE /\ e' = e
              /\ pc' = "items"
              /\ fe' = [fe EXCEPT !.k = 1, !.upcoming = checkUpcoming(fe.page)]
              /\ h' = [h EXCEPT !.run.checked = @ \cup Range(fe.page)]
    /\ UNCHANGED <<call, cmdErrs, cfgVars, envVars, poolVars, chancache, Videos, cycle, chIdx,
                   cerr, err, ret, leaked>>

\* Mutant of the page loop: c.Videos == nil is tested again after each page.
MorePagesWhileNil == Videos[Ch].isNil /\ HasNextPage(Ch, fe.n)

\* foreach's loop is over: the next page is requested when every page is
\* walked and the response had a next-page token, else Foreach returns nil.
MorePages == fe.full /\ HasNextPage(Ch, fe.n)

PageEnd ==
    /\ pc = "items" /\ fe.k > Len(fe.page)
    /\ pc' = IF MorePages THEN "foreach" ELSE "close"
    /\ UNCHANGED <<call, cmdErrs, cfgVars, envVars, poolVars, chancache, Videos, cycle, chIdx,
                   fe, e, cerr, err, ret, leaked, h>>

\* foreach skips a video flagged as upcoming.
SkipUpcoming ==
    /\ pc = "items" /\ fe.k <= Len(fe.page)
    /\ fe.page[fe.k] \in fe.upcoming
    /\ fe' = [fe EXCEPT !.k = @ + 1]
    /\ h' = [h EXCEPT !.run.skipped = Append(@, fe.page[fe.k]),
                      !.skippedLive[Ch] = @ \cup {fe.page[fe.k]}]
    /\ UNCHANGED <<call, cmdErrs, cfgVars, envVars, poolVars, chancache, Videos, pc, cycle,
                   chIdx, e, cerr, err, ret, leaked>>

\* The visit callback up to mp.Submit: make the map, skip a seen video,
\* skip a video a selector objects to.
Visit ==
    /\ pc = "items" /\ fe.k <= Len(fe.page)
    /\ fe.page[fe.k] \notin fe.upcoming
    /\ LET v == fe.page[fe.k]
           made == IF Videos[Ch].isNil THEN MakeVideos ELSE Videos[Ch]
       IN  /\ Videos' = [Videos EXCEPT ![Ch] = made]
           /\ IF AlreadySeen(Ch, v)
              THEN /\ fe' = [fe EXCEPT !.k = @ + 1]
                   /\ pc' = pc
                   /\ h' = [h EXCEPT !.run.visited = Append(@, v)]
              ELSE /\ h' = [h EXCEPT !.run.visited = Append(@, v),
                                     !.run.evaluated =
                                        IF SelectorsApplied(Ch) # <<>>
                                        THEN @ \cup {v} ELSE @,
                                     !.rejected[Ch] =
                                        IF Selected(Ch, v) THEN @ ELSE @ \cup {v}]
                   /\ IF Selected(Ch, v)
                      THEN pc' = "submit" /\ fe' = fe
                      ELSE pc' = pc /\ fe' = [fe EXCEPT !.k = @ + 1]
    /\ UNCHANGED <<call, cmdErrs, cfgVars, envVars, poolVars, chancache, cycle, chIdx, e, cerr,
                   err, ret, leaked>>

\* Mutant of the queue's capacity: one slot more.
QueueCapPlusOne == cfg.MaxParallel + 1

\* make(chan *youtube.PlaylistItem, cfg.MaxParallel): the queue's capacity.
QueueCap == cfg.MaxParallel

\* mp.Submit, a send on the buffered job queue, and the mark that follows.
Submit ==
    /\ pc = "submit"
    /\ Len(workChan) < QueueCap
    /\ LET v == fe.page[fe.k]
       IN  /\ workChan' = Append(workChan, v)
           /\ Videos' = [Videos EXCEPT ![Ch].ids = @ \cup {v}]
           /\ h' = [h EXCEPT !.run.submitted = Append(@, v),
                             !.unfailed[Ch] = @ \cup {v}]
    /\ fe' = [fe EXCEPT !.k = @ + 1]
    /\ pc' = "items"
    /\ UNCHANGED <<call, cmdErrs, cfgVars, envVars, closed, wk, waitI, waitErrs, chancache,
                   cycle, chIdx, e, cerr, err, ret, leaked>>

\* Foreach has returned: its error is recorded, then mp.Done closes the
\* job queue and Wait starts.
Close ==
    /\ pc = "close"
    /\ cerr' = cerr \o e
    /\ e' = <<>> /\ fe' = NoFe
    /\ closed' = TRUE
    /\ waitI' = 0 /\ waitErrs' = <<>>
    /\ pc' = "wait"
    /\ UNCHANGED <<call, cmdErrs, cfgVars, envVars, workChan, wk, chancache, Videos, cycle,
                   chIdx, err, ret, leaked, h>>

\* Mutant of Wait's loop bound: Wait returns after the first list.
WaitCountFirst == Min(cfg.MaxParallel, 1)

\* Mutant of Wait's loop bound: one receive too few.
WaitCountShort == cfg.MaxParallel - 1

\* Number of error lists Wait receives.
WaitCount == cfg.MaxParallel

\* Mutant of Wait's accumulation: the list received replaces the earlier
\* ones.
WaitAppendLast(errs, list) == list

\* errs = append(errs, err...)
WaitAppend(errs, list) == errs \o list

\* One iteration of Wait's loop: worker w's deferred send on the unbuffered
\* errChan meets Wait's receive.
Receive(w) ==
    /\ pc = "wait" /\ waitI < WaitCount
    /\ wk[w].pc = "send"
    /\ waitErrs' = WaitAppend(waitErrs, wk[w].errs)
    /\ waitI' = waitI + 1
    /\ wk' = [wk EXCEPT ![w] = NoWorker]
    /\ h' = [h EXCEPT !.run.sent[w] = @ + 1]
    /\ UNCHANGED <<call, cmdErrs, cfgVars, envVars, workChan, closed, chancache, Videos, pc,
                   cycle, chIdx, fe, e, cerr, err, ret, leaked>>

\* The IDs Archive deletes from Videos after Wait.
RolledBack(errs) == {errs[i].VideoID : i \in {j \in DOMAIN errs : IsVideoError(errs[j])}}

\* Mutant of cerr.Nil: a single error is not reported.
ChannelFailedTwice(errs) == Len(errs) > 1

\* Whether the channel's error collection is appended to the result.
ChannelFailed(errs) == Len(errs) # 0

\* Wait has returned: every error is added to the channel's collection,
\* video errors are rolled back, and the collection is appended to the
\* result when it is not empty.
Reconcile ==
    /\ pc = "wait" /\ waitI = WaitCount
    /\ Videos' = [Videos EXCEPT ![Ch] = Delete(@, RolledBack(waitErrs))]
    /\ LET all == cerr \o waitErrs
       IN  err' = IF ChannelFailed(all)
                  THEN Append(err, [ChannelID |-> Ch, Errors |-> all])
                  ELSE err
    /\ cerr' = <<>> /\ waitI' = 0
    /\ chIdx' = chIdx + 1
    /\ pc' = "loop"
    /\ h' = [h EXCEPT !.processed = Append(@, Ch),
                      !.prevFailed[Ch] =
                          {d.VideoID : d \in {x \in h.run.dl : x.err # <<>>}}]
    /\ UNCHANGED <<call, cmdErrs, cfgVars, envVars, workChan, closed, wk, waitErrs, chancache,
                   cycle, fe, e, ret, leaked>>

\* The loop is over: Archive returns nil when err is empty.
ArchiveReturn ==
    /\ pc = "loop" /\ chIdx > Len(cfg.Channels)
    /\ ret' = [done |-> TRUE, isNil |-> Len(err) = 0, errs |-> err]
    /\ err' = <<>>
    /\ pc' = "idle"
    /\ UNCHANGED <<call, cmdErrs, cfgVars, envVars, poolVars, chancache, Videos, cycle, chIdx,
                   fe, e, cerr, leaked, h>>

(***************************************************************************)
(* archiveMultiplexer.worker.                                              *)
(***************************************************************************)
\* for pi := range mp.workChan: a job is received.
TakeJob(w) ==
    /\ w \in Workers /\ wk[w].pc = "recv"
    /\ workChan # <<>>
    /\ wk' = [wk EXCEPT ![w].pc = "run", ![w].job = Head(workChan)]
    /\ workChan' = Tail(workChan)
    /\ UNCHANGED <<call, cmdErrs, cfgVars, envVars, closed, waitI, waitErrs, chancache, Videos,
                   pc, cycle, chIdx, fe, e, cerr, err, ret, leaked, h>>

\* The range loop ends: the queue is closed and drained.
QueueClosed(w) ==
    /\ w \in Workers /\ wk[w].pc = "recv"
    /\ workChan = <<>> /\ closed
    /\ wk' = [wk EXCEPT ![w].pc = "send"]
    /\ UNCHANGED <<call, cmdErrs, cfgVars, envVars, workChan, closed, waitI, waitErrs,
                   chancache, Videos, pc, cycle, chIdx, fe, e, cerr, err, ret,
                   leaked, h>>

\* What the worker does after a job: it returns when the context is done.
AfterJob == IF ctxDone THEN "send" ELSE "recv"

\* youtubeDownload returns for the worker's job; a failure is appended to
\* errs; then the context is polled.
FinishJob(w) ==
    /\ w \in Workers /\ wk[w].pc = "run"
    /\ \E outs \in [1 .. cfg.MaxRetries -> JobOutcomes] :
         LET r == youtubeDownload(cfg.MaxRetries, outs)
             v == wk[w].job
         IN  /\ wk' = [wk EXCEPT ![w].errs = @ \o r.err, ![w].pc = AfterJob,
                                 ![w].job = NoID]
             /\ h' = [h EXCEPT
                        !.run.dl = @ \cup {[VideoID |-> v, err |-> r.err,
                                            calls |-> r.calls]},
                        !.recorded[h.run.ch] =
                            IF r.err # <<>> THEN @ (+) SetToBag({r.err[1]}) ELSE @,
                        !.okEver[h.run.ch] =
                            IF r.err = <<>> THEN @ \cup {v} ELSE @,
                        !.unfailed[h.run.ch] =
                            IF r.err # <<>> THEN @ \ {v} ELSE @]
    /\ UNCHANGED <<call, cmdErrs, cfgVars, envVars, workChan, closed, waitI, waitErrs,
                   chancache, Videos, pc, cycle, chIdx, fe, e, cerr, err, ret,
                   leaked>>

(***************************************************************************)
(* The environment.                                                        *)
(***************************************************************************)
\* The caller cancels the context it gave to NewArchiverWithContext.
Cancel ==
    /\ cfg.Cancellable
    /\ pc # "new" /\ ~ctxDone
    /\ ctxDone' = TRUE
    /\ UNCHANGED <<call, cmdErrs, cfgVars, uploads, status, disk, poolVars, chancache, Videos,
                   pc, cycle, chIdx, fe, e, cerr, err, ret, leaked, h>>

\* A scheduled video goes live; a live video completes.
NextStatus(st) == IF st = "upcoming" THEN "live" ELSE "completed"

Broadcast(v) ==
    /\ pc # "new" /\ status[v] \in {"upcoming", "live"}
    /\ status' = [status EXCEPT ![v] = NextStatus(@)]
    /\ UNCHANGED <<call, cmdErrs, cfgVars, uploads, disk, ctxDone, poolVars, chancache, Videos,
                   pc, cycle, chIdx, fe, e, cerr, err, ret, leaked, h>>

Next ==
    \/ CrawlRoot
    \/ ArchiveStart
    \/ ChannelMiss
    \/ ChannelStart
    \/ RequestPage
    \/ CheckUpcomingReturns
    \/ PageEnd
    \/ SkipUpcoming
    \/ Visit
    \/ Submit
    \/ Close
    \/ \E w \in 1 .. MaxPool : Receive(w)
    \/ Reconcile
    \/ ArchiveReturn
    \/ \E w \in 1 .. MaxPool : TakeJob(w)
    \/ \E w \in 1 .. MaxPool : QueueClosed(w)
    \/ \E w \in 1 .. MaxPool : FinishJob(w)
    \/ Cancel
    \/ \E v \in VideoIDs : Broadcast(v)

Spec == Init /\ [][Next]_vars

(***************************************************************************)
(* youtubeDownload on its own: one call, for every MaxRetries up to        *)
(* MaxAttempts and every sequence of outcomes of the downloader's first    *)
(* MaxAttempts invocations.                                                *)
(***************************************************************************)
MaxAttempts == 3

\* defaultConfig: one channel without selectors, MaxParallel the value of
\* runtime.GOMAXPROCS(0), which the machine decides, MaxRetries 3, no
\* selector.  The archiver is built by NewArchiver, without a context.
defaultConfig(gomaxprocs) ==
    [Channels |-> <<1>>, MaxParallel |-> gomaxprocs, MaxRetries |-> 3,
     Selectors |-> <<>>, ChanSelectors |-> [c \in ChanIDs |-> <<>>],
     Cancellable |-> FALSE]

\* The configurations youtubeDownload is called with: the default one on a
\* machine of up to MaxPool CPUs, with MaxRetries set by the caller.
DownloadConfigs ==
    {[defaultConfig(p) EXCEPT !.MaxRetries = n] :
        p \in 1 .. MaxPool, n \in 0 .. MaxAttempts}

InitDownload ==
    /\ cfg \in DownloadConfigs
    /\ uploads = [c \in ChanIDs |-> <<>>]
    /\ status = [v \in VideoIDs |-> "none"]
    /\ disk = [c \in ChanIDs |-> NoDirectory]
    /\ chancache = {}
    /\ InitProgram
    /\ call \in [outs : [1 .. MaxAttempts -> AttemptOutcomes], done : {FALSE},
                  err : {<<>>}, calls : {0}]
    /\ cmdErrs = ArchiveCmdErrs

\* youtubeDownload(cfg, videoID, outPath) is called and returns.
CallDownload ==
    /\ ~call.done
    /\ LET r == youtubeDownload(cfg.MaxRetries, call.outs)
       IN  call' = [call EXCEPT !.done = TRUE, !.err = r.err, !.calls = r.calls]
    /\ UNCHANGED <<cmdErrs, cfgVars, envVars, poolVars, chancache, Videos, pc,
                   cycle, chIdx, fe, e, cerr, err, ret, leaked, h>>

NextDownload == CallDownload

SpecDownload == InitDownload /\ [][NextDownload]_vars

(***************************************************************************)
(* cachedChannel.Foreach on its own: one call on channel 1, for every feed,*)
(* for Videos nil and not nil, and for every callback cmd, given by the    *)
(* set of videos on which it returns an error.  The call has returned when *)
(* pc = "close"; e is its result.                                          *)
(***************************************************************************)
\* Mutant of foreach's test of cmd's result: the error is dropped.
CmdErrorIgnored(v) == FALSE

\* if err := cmd(c, v); err != nil { return err }
CmdHalts(v) == v \in cmdErrs

InitForeach ==
    /\ cfg \in {defaultConfig(p) : p \in 1 .. MaxPool}
    /\ uploads \in [ChanIDs -> Feeds]
    /\ \A c \in ChanIDs : ~Configured(c) => uploads[c] = <<>>
    /\ status \in [VideoIDs -> {"none", "upcoming"}]
    /\ \A v \in VideoIDs : status[v] # "none" => v \in Range(uploads[1])
    /\ disk = [c \in ChanIDs |-> NoDirectory]
    /\ chancache = {1}
    /\ ctxDone = FALSE
    /\ Videos \in [ChanIDs -> {NilVideos, MakeVideos}]
    /\ \A c \in ChanIDs : ~Configured(c) => Videos[c] = NilVideos
    /\ pc = "foreach" /\ cycle = 1 /\ chIdx = 1
    /\ fe = [NoFe EXCEPT !.full = FullHistory(1)]
    /\ e = <<>> /\ cerr = <<>> /\ err = <<>> /\ ret = NoRet
    /\ workChan = <<>> /\ closed = FALSE
    /\ wk = [w \in 1 .. MaxPool |-> NoWorker]
    /\ waitI = 0 /\ waitErrs = <<>> /\ leaked = 0
    /\ call = NoCall
    /\ cmdErrs \in SUBSET Range(uploads[1])
    /\ h = [InitHistory EXCEPT !.run = [NoRun EXCEPT
                !.seenAtStart = Videos[1],
                !.liveAtStart = {v \in VideoIDs : IsUpcoming(status[v])},
                !.ch = 1]]

\* foreach hands the next item of the page to cmd; when cmd returns an
\* error foreach returns it and Foreach returns it wrapped.
CmdReturns ==
    /\ pc = "items" /\ fe.k <= Len(fe.page)
    /\ fe.page[fe.k] \notin fe.upcoming
    /\ LET v == fe.page[fe.k]
       IN  /\ h' = [h EXCEPT !.run.visited = Append(@, v)]
           /\ IF CmdHalts(v)
              THEN /\ e' = <<ForeachError("cmd", fe.n)>>
                   /\ pc' = "close"
                   /\ fe' = fe
              ELSE /\ e' = e
                   /\ pc' = pc
                   /\ fe' = [fe EXCEPT !.k = @ + 1]
    /\ UNCHANGED <<call, cmdErrs, cfgVars, envVars, poolVars, chancache, Videos,
                   cycle, chIdx, cerr, err, ret, leaked>>

NextForeach ==
    \/ RequestPage
    \/ CheckUpcomingReturns
    \/ PageEnd
    \/ SkipUpcoming
    \/ CmdReturns

SpecForeach == InitForeach /\ [][NextForeach]_vars

(***************************************************************************)
(* Vocabulary of the properties.                                           *)
(***************************************************************************)
\* Foreach has returned nil for the current channel (Done is the next step).
EnumerationDone == pc = "close" /\ e = <<>>

\* The loop iteration of channel h.run.ch has just ended (after Wait and the
\* rollback loop): the end of the channel's cycle.
RunEnded ==
    /\ pc = "loop" /\ h.run.ch # 0
    /\ h.processed # <<>> /\ h.processed[Len(h.processed)] = h.run.ch

\* v passes every configured selector, channel-scoped and global.
PassesAll(ch, v) ==
    \A i \in DOMAIN AllSelectors(ch) : Should(AllSelectors(ch)[i], v)

RECURSIVE BagOfSeq(_)
BagOfSeq(q) == IF q = <<>> THEN EmptyBag
               ELSE SetToBag({Head(q)}) (+) BagOfSeq(Tail(q))

\* The errors of the failed downloads of a run, each once.
RECURSIVE FailureBag(_)
FailureBag(S) ==
    IF S = {} THEN EmptyBag
    ELSE LET d == CHOOSE x \in S : TRUE
         IN  (IF d.err # <<>> THEN SetToBag({d.err[1]}) ELSE EmptyBag)
             (+) FailureBag(S \ {d})

(***************************************************************************)
(* C1.  At the end of a channel's cycle, the ID of every download that     *)
(* failed is absent from the channel's seen set and the ID of every        *)
(* download that succeeded is present.  (Violated: a download error is not *)
(* a videoError, so the rollback never removes an ID.)                     *)
(***************************************************************************)
C1_FailedAbsentSucceededPresent ==
    RunEnded =>
        \A d \in h.run.dl :
            IF d.err # <<>>
            THEN d.VideoID \notin Videos[h.run.ch].ids
            ELSE d.VideoID \in Videos[h.run.ch].ids

(***************************************************************************)
(* C2.  When a cycle's enumeration has completed, every video whose        *)
(* download failed in the channel's previous cycle, that is still in the   *)
(* feed (on any page), was not upcoming or live and passes every selector, *)
(* has been submitted again.  (Violated.)                                  *)
(***************************************************************************)
C2_FailedResubmittedNextCycle ==
    EnumerationDone =>
        \A v \in h.prevFailed[Ch] :
            ( /\ v \in Range(uploads[Ch])
              /\ v \notin h.run.liveAtStart
              /\ PassesAll(Ch, v) )
            => v \in Range(h.run.submitted)

(***************************************************************************)
(* C3.  Every submission is of an ID that is not in seen, and the same     *)
(* step adds it to seen; the ID has not been submitted before in this      *)
(* cycle, has never been downloaded successfully, and every earlier        *)
(* submission of it has been followed by a failed download of it.          *)
(***************************************************************************)
C3_SubmittedOnlyWhenUnseen ==
    [][ Len(h'.run.submitted) = Len(h.run.submitted) + 1 =>
          LET v == h'.run.submitted[Len(h'.run.submitted)]
              c == h.run.ch
          IN  /\ v \notin Videos[c].ids
              /\ v \in Videos'[c].ids
              /\ v \notin Range(h.run.submitted)
              /\ v \notin h.okEver[c]
              /\ v \notin h.unfailed[c] ]_vars

\* A later cycle visits a video downloaded before, does not submit it, and
\* submits another one.
C3_Witness ==
    /\ cycle = 2 /\ h.run.ch # 0
    /\ h.run.submitted # <<>>
    /\ \E v \in h.okEver[h.run.ch] :
          v \in Range(h.run.visited) /\ v \notin Range(h.run.submitted)

(***************************************************************************)
(* C4.  An ID that is in seen when the enumeration of a cycle begins is    *)
(* neither submitted nor handed to a selector during that cycle.           *)
(***************************************************************************)
C4_SeenAtStartSkipped ==
    h.run.ch # 0 =>
        \A v \in h.run.seenAtStart.ids :
            v \notin Range(h.run.submitted) /\ v \notin h.run.evaluated

\* A video seen at the start is visited while selectors are configured and
\* another video is evaluated.
C4_Witness ==
    /\ h.run.ch # 0
    /\ \E v \in h.run.seenAtStart.ids : v \in Range(h.run.visited)
    /\ h.run.evaluated # {}

(***************************************************************************)
(* C5.  A video that is upcoming or live throughout a cycle is not handed  *)
(* to the visit callback, not submitted and not added to seen by it; and a *)
(* video skipped as upcoming is checked again in every later cycle whose   *)
(* enumeration completes while it is in the feed and still upcoming or     *)
(* live.  (The second part is violated for a video beyond the first page.) *)
(***************************************************************************)
C5_LiveSkippedAndRechecked ==
    /\ h.run.ch # 0 =>
          \A v \in h.run.liveAtStart :
              IsUpcoming(status[v]) =>
                  /\ v \notin Range(h.run.visited)
                  /\ v \notin Range(h.run.submitted)
                  /\ v \in Videos[h.run.ch].ids => v \in h.run.seenAtStart.ids
    /\ EnumerationDone =>
          \A v \in h.skippedLive[Ch] :
              (v \in Range(uploads[Ch]) /\ IsUpcoming(status[v]))
              => v \in h.run.checked

(***************************************************************************)
(* C6.  When Foreach started with seen unset and has returned nil, every   *)
(* page of the feed has been requested and every item of the feed has been *)
(* checked and then visited or skipped as upcoming.                        *)
(***************************************************************************)
C6_UnsetWalksEveryPage ==
    (EnumerationDone /\ h.run.seenAtStart.isNil) =>
        /\ h.run.requests = NumPages(Ch)
        /\ h.run.checked = Range(uploads[Ch])
        /\ Len(h.run.visited) + Len(h.run.skipped) = Len(uploads[Ch])
        /\ Range(h.run.visited) \cup Range(h.run.skipped) = Range(uploads[Ch])

\* A two-page feed was walked to its end although the callback made the
\* seen set during the first page.
C6_Witness ==
    /\ EnumerationDone /\ h.run.seenAtStart.isNil
    /\ ~Videos[Ch].isNil
    /\ h.run.requests = 2
    /\ Len(h.run.visited) = Len(uploads[Ch])

(***************************************************************************)
(* C7.  When Foreach started with seen set, at most one page is requested  *)
(* and nothing beyond the first page is checked, visited, evaluated or     *)
(* submitted in that cycle.                                                *)
(***************************************************************************)
C7_SetVisitsFirstPageOnly ==
    (h.run.ch # 0 /\ ~h.run.seenAtStart.isNil) =>
        LET first == PageItems(h.run.ch, 1)
        IN  /\ h.run.requests <= 1
            /\ h.run.checked \subseteq Range(first)
            /\ Len(h.run.visited) + Len(h.run.skipped) <= Len(first)
            /\ Range(h.run.visited) \subseteq Range(first)
            /\ h.run.evaluated \subseteq Range(first)
            /\ Range(h.run.submitted) \subseteq Range(first)

\* The enumeration of a two-page feed completes after one request.
C7_Witness ==
    /\ EnumerationDone /\ ~h.run.seenAtStart.isNil
    /\ HasNextPage(Ch, 1)
    /\ h.run.requests = 1
    /\ h.run.visited # <<>>

(***************************************************************************)
(* C8.  Every submitted video passes every configured selector, those of   *)
(* its channel and the global ones; with no selector configured every      *)
(* visited video that was not seen is submitted.  (Violated: the selectors *)
(* of the channel are not consulted.)                                      *)
(***************************************************************************)
C8_SubmittedPassEverySelector ==
    /\ h.run.ch # 0 =>
          \A v \in Range(h.run.submitted) : PassesAll(h.run.ch, v)
    /\ (EnumerationDone /\ AllSelectors(Ch) = <<>>) =>
          \A v \in Range(h.run.visited) :
              v \in Range(h.run.submitted) \/ v \in h.run.seenAtStart.ids

(***************************************************************************)
(* C9.  No worker sends more than one error list; when Wait has returned,  *)
(* every worker of the pool has sent exactly one and has terminated, and   *)
(* the list Wait returned holds exactly the errors of the failed downloads *)
(* of the pool, each once.                                                 *)
(***************************************************************************)
C9_WaitBarrier ==
    /\ \A w \in 1 .. MaxPool : h.run.sent[w] <= 1
    /\ RunEnded =>
          /\ \A w \in Workers : h.run.sent[w] = 1 /\ wk[w].pc = "exit"
          /\ BagOfSeq(waitErrs) = FailureBag(h.run.dl)

\* Wait has returned the failures of a pool of two workers.
C9_Witness ==
    /\ RunEnded /\ cfg.MaxParallel = 2
    /\ Len(waitErrs) = 2
    /\ \E d \in h.run.dl : d.err = <<>>

(***************************************************************************)
(* C10.  When Archive returns, every configured channel has been processed *)
(* in order; the result is nil exactly when no channel recorded an error;  *)
(* otherwise it holds one entry per channel that recorded an error, in     *)
(* channel order, each listing exactly that channel's errors.              *)
(***************************************************************************)
HadError(c) == h.recorded[c] # EmptyBag
ChannelIDsOf(errs) == [i \in DOMAIN errs |-> errs[i].ChannelID]

C10_ArchiveResult ==
    ret.done =>
        /\ h.processed = cfg.Channels
        /\ ret.isNil <=> (\A c \in ChanIDs : ~HadError(c))
        /\ ret.isNil => ret.errs = <<>>
        /\ ChannelIDsOf(ret.errs) = SelectSeq(cfg.Channels, HadError)
        /\ \A i \in DOMAIN ret.errs :
              BagOfSeq(ret.errs[i].Errors) = h.recorded[ret.errs[i].ChannelID]

\* The first channel failed, the second was still processed and downloaded
\* a video.
C10_Witness ==
    /\ ret.done /\ Len(cfg.Channels) = 2
    /\ Len(ret.errs) = 1 /\ ret.errs[1].ChannelID = 1
    /\ h.run.ch = 2 /\ \E d \in h.run.dl : d.err = <<>>
(***************************************************************************)
(* Disk reconciliation.                                                    *)
(***************************************************************************)
\* crawlRoot has returned and Archive has not been called yet.
Reconciled == pc = "idle" /\ cycle = 0

\* A sidecar: a file whose name ends in ".json".
IsSidecar(f) == ~f.isDir /\ f.name[Len(f.name)] = "json" /\ Len(f.name) > 1

\* The IDs of the files of channel c's directory that are not sidecars: the
\* part of each name before its first dot.
DiskIDs(c) ==
    IF ~disk[c].ok THEN {}
    ELSE {f.name[1] : f \in {g \in disk[c].entries : ~g.isDir /\ ~IsSidecar(g)}}

\* C11: after disk reconciliation the seen set of every channel holds
\* exactly the IDs of the non-sidecar files of the channel's directory (the
\* substring of the name before the first dot); a sidecar and a
\* subdirectory add no ID.
C11_ReconciledSeenIsDiskIDs ==
    Reconciled => \A c \in chancache : Videos[c].ids = DiskIDs(c)

\* A directory holding A.mp4 and A.info.json gave seen = {A}.
C11_Witness ==
    /\ Reconciled
    /\ \E c \in chancache :
          /\ disk[c].ok /\ disk[c].entries = {FileMp4("A"), FileInfo("A")}
          /\ Videos[c] = [isNil |-> FALSE, ids |-> {"A"}]

\* C12: after disk reconciliation a channel's seen set is set only if an ID
\* was derived from a file of its directory: with a missing or empty
\* directory, or one holding only sidecars and subdirectories, seen stays
\* unset (and the first cycle walks the full history).
C12_SeenSetOnlyIfIDDerived ==
    Reconciled => \A c \in chancache : ~Videos[c].isNil => DiskIDs(c) # {}

\* The errors recorded for channel c in this Archive call hold no
\* enumeration error.
EnumeratedCleanly(c) == \A x \in BagToSet(h.recorded[c]) : x.kind # "foreach"

\* Every video submitted in the run was downloaded, and every download of
\* the run succeeded.
AllDownloadsSucceeded ==
    /\ \A d \in h.run.dl : d.err = <<>>
    /\ Range(h.run.submitted) \subseteq {d.VideoID : d \in h.run.dl}

\* The first cycle of channel c has ended; its feed was one page of published
\* videos, walked without error, and no global selector is configured.
OnePageCycleEnded(c) ==
    /\ RunEnded /\ cycle = 1 /\ h.run.ch = c
    /\ uploads[c] # <<>> /\ NumPages(c) = 1
    /\ cfg.Selectors = <<>>
    /\ h.run.liveAtStart \cap Range(uploads[c]) = {}
    /\ EnumeratedCleanly(c)

\* C13: end to end, reconciliation followed by one Archive cycle over a
\* one-page feed F of published videos with no selectors submits exactly the
\* videos of F that are not on disk, each once, and when all downloads
\* succeed seen is the IDs on disk united with F.
C13_EndToEnd ==
    \A c \in ChanIDs :
        OnePageCycleEnded(c) =>
            /\ Range(h.run.submitted) = Range(uploads[c]) \ DiskIDs(c)
            /\ Len(h.run.submitted) = Cardinality(Range(h.run.submitted))
            /\ AllDownloadsSucceeded =>
                   Videos[c].ids = DiskIDs(c) \cup Range(uploads[c])

\* Disk held A, the feed was [A, B]: only B was submitted, its download
\* succeeded and seen is {A, B}.
C13_Witness ==
    \E c \in ChanIDs :
        /\ OnePageCycleEnded(c) /\ AllDownloadsSucceeded
        /\ DiskIDs(c) = {"A"} /\ uploads[c] = <<"A", "B">>
        /\ h.run.submitted = <<"B">>
        /\ \E d \in h.run.dl : d.VideoID = "B" /\ d.calls >= 1
        /\ Videos[c].ids = {"A", "B"}

(***************************************************************************)
(* youtubeDownload.                                                        *)
(***************************************************************************)
\* The index of the first successful invocation among outs, 0 when none.
RECURSIVE FirstOkFrom(_, _)
FirstOkFrom(outs, i) ==
    IF i > Len(outs) THEN 0
    ELSE IF outs[i] = "ok" THEN i ELSE FirstOkFrom(outs, i + 1)
FirstOk(outs) == FirstOkFrom(outs, 1)

\* C14: youtubeDownload returns nil only if the downloader was invoked at
\* least once for the video and the invocation it ended on started cleanly
\* and exited with code zero, for every MaxRetries, zero included.
C14_NilOnlyAfterCleanAttempt ==
    (call.done /\ call.err = <<>>) =>
        call.calls >= 1 /\ call.outs[call.calls] = "ok"

\* C15: with MaxRetries zero youtubeDownload retries for ever: when it
\* returns it has invoked the downloader until the first attempt that
\* succeeded, and it returns nil, never a failure.
C15_ZeroRetriesUntilSuccess ==
    (call.done /\ cfg.MaxRetries = 0) =>
        /\ FirstOk(call.outs) # 0
        /\ call.calls = FirstOk(call.outs)
        /\ call.err = <<>>

\* C19: for MaxRetries = n >= 1 youtubeDownload invokes the downloader at
\* most n times; it stops at the first attempt that succeeds and returns
\* nil; when all n attempts fail it returns the failure of the n-th.
C19_BoundedRetries ==
    (call.done /\ cfg.MaxRetries >= 1) =>
        LET n == cfg.MaxRetries
            f == FirstOk(SubSeq(call.outs, 1, n))
        IN  /\ call.calls <= n
            /\ f # 0 => call.calls = f /\ call.err = <<>>
            /\ f = 0 => /\ call.calls = n
                        /\ call.err = <<DownloaderError(call.outs[n])>>

\* Two attempts allowed: the first could not be started, the second exited
\* non-zero, and the error returned is that of the second.
C19_Witness ==
    /\ call.done /\ cfg.MaxRetries = 2
    /\ call.outs[1] = "spawn" /\ call.outs[2] = "exit"
    /\ call.calls = 2
    /\ call.err # <<>> /\ call.err[1].cause = "exit"

(***************************************************************************)
(* Cache misses.                                                           *)
(***************************************************************************)
\* The configured channels without cache entry.
MissingChannels == Range(cfg.Channels) \ chancache

\* The entries of Archive's result that name channel c.
EntriesOf(c) == {i \in DOMAIN ret.errs : ret.errs[i].ChannelID = c}

\* C16: for a configured channel without cache entry Archive records a
\* cache-miss error and nothing else, enumerates, visits and submits none
\* of its videos (every channel run is that of a cached channel), and still
\* processes every later channel.
C16_CacheMissSkipsChannel ==
    /\ h.run.ch # 0 => h.run.ch \in chancache
    /\ pc \in {"foreach", "upcoming", "items", "submit", "close", "wait"}
          => Ch \in chancache
    /\ ret.done =>
          /\ h.processed = cfg.Channels
          /\ \A c \in MissingChannels :
                /\ Cardinality(EntriesOf(c)) = 1
                /\ \A i \in EntriesOf(c) :
                      /\ Len(ret.errs[i].Errors) = 1
                      /\ ret.errs[i].Errors[1].kind = "ErrCacheMiss"

\* The first of two channels had no cache entry; the second was still
\* enumerated and a video of it submitted.
C16_Witness ==
    /\ ret.done /\ Len(cfg.Channels) = 2
    /\ MissingChannels = {1}
    /\ h.run.ch = 2 /\ h.run.submitted # <<>>
    /\ Len(ret.errs) = 1 /\ ret.errs[1].ChannelID = 1

(***************************************************************************)
(* Cancellation.                                                           *)
(***************************************************************************)
\* Worker w's download is in flight and the context is cancelled: the step
\* that ends it is the return of youtubeDownload for its job; the failure,
\* if any, is appended to the worker's list and the worker goes to its
\* deferred send without taking another job.
InFlightFinishes(w) ==
    (ctxDone /\ wk[w].pc = "run" /\ wk'[w].pc # "run") =>
        /\ wk'[w].pc = "send"
        /\ workChan' = workChan
        /\ \E d \in h'.run.dl :
              /\ d.VideoID = wk[w].job
              /\ wk'[w].errs = wk[w].errs \o d.err

\* Worker w has stopped: it takes no job, and the step that ends its wait
\* hands its list, whole, to Wait; it is the one list it sends.
StoppedWorkerReportsOnce(w) ==
    (ctxDone /\ wk[w].pc = "send" /\ wk'[w] # wk[w]) =>
        /\ wk'[w].pc = "exit"
        /\ workChan' = workChan
        /\ waitErrs' = waitErrs \o wk[w].errs
        /\ h'.run.sent[w] = 1

\* Worker w waits to hand over its list, but Wait will never receive it:
\* the orchestrator is blocked in Submit on a full queue and every worker of
\* the pool has stopped taking jobs.
Stranded(w) ==
    /\ wk[w].pc = "send"
    /\ pc = "submit" /\ ~ENABLED Submit
    /\ \A x \in Workers : wk[x].pc = "send"

\* C17: cancellation is cooperative.  Once the context is cancelled a worker
\* lets its in-flight download finish, takes no further job after it, and
\* still reports exactly one error list, which holds the failure of the
\* in-flight job if it failed.
C17_CooperativeCancellation ==
    /\ [][\A w \in Workers : InFlightFinishes(w) /\ StoppedWorkerReportsOnce(w)]_vars
    /\ [](\A w \in Workers : ctxDone => ~Stranded(w))

(***************************************************************************)
(* The seen set stays set; the job queue is bounded.                       *)
(***************************************************************************)
\* C18: once a channel's seen set is set (non-nil) no step of the process,
\* reconciliation, enumeration, submission or rollback, returns it to unset,
\* also when no element is left in it.
C18_SeenStaysSet ==
    [][\A c \in ChanIDs : ~Videos[c].isNil => ~Videos'[c].isNil]_vars

\* A second cycle has ended for a channel whose seen set is set and empty:
\* it went through enumeration and the rollback loop more than once.
C18_Witness ==
    /\ RunEnded /\ cycle = 2
    /\ Videos[h.run.ch] = MakeVideos

\* C20: the job queue of a pool never holds more than MaxParallel jobs, and
\* Submit completes only when a slot is free: a step that adds a job starts
\* with fewer than MaxParallel jobs queued and adds one job.
C20_QueueBounded ==
    /\ [](Len(workChan) <= cfg.MaxParallel)
    /\ [][Len(workChan') > Len(workChan) =>
            /\ Len(workChan) < cfg.MaxParallel
            /\ pc = "submit"
            /\ workChan' = Append(workChan, fe.page[fe.k])]_vars

\* The queue is full and the orchestrator stalls in Submit with the next
\* job, while a worker is still downloading.
C20_Witness ==
    /\ pc = "submit" /\ Len(workChan) = cfg.MaxParallel
    /\ ~ENABLED Submit
    /\ \E w \in Workers : wk[w].pc = "run"

(***************************************************************************)
(* Scheduling.                                                             *)
(***************************************************************************)
\* The workers whose download is in flight.
InFlight == {w \in 1 .. MaxPool : wk[w].pc = "run"}

\* No worker of a pool is alive (each has reported and terminated).
PoolOver == \A w \in 1 .. MaxPool : wk[w].pc = "exit"

\* Every worker of every earlier pool of the process has reported its list:
\* none is left on the job queue of a pool that was never closed.
EarlierPoolsReported == leaked = 0

\* C21: at every moment at most MaxParallel downloads are in flight, each of
\* a video submitted in the current channel run; while a download is in
\* flight every worker of the earlier channels' pools has reported;
\* between channel runs no worker is alive, and a channel run starts only
\* after every worker of the previous pool has reported its one list
\* (channel runs do not overlap).
C21_NoOverlap ==
    /\ [](/\ Cardinality(InFlight) <= cfg.MaxParallel
          /\ \A w \in InFlight :
                /\ h.run.ch = Ch
                /\ wk[w].job \in Range(h.run.submitted)
          /\ InFlight # {} => EarlierPoolsReported
          /\ pc \in {"new", "idle", "loop"} => PoolOver)
    /\ [][h'.run.ch # h.run.ch =>
            /\ PoolOver
            /\ h.run.ch # 0 => \A w \in Workers : h.run.sent[w] = 1]_vars

(***************************************************************************)
(* Who changes the seen sets.                                              *)
(***************************************************************************)
\* A step of a worker: its position, job or error list changes (the start of
\* a pool, which creates the workers, is the orchestrator's step).
WorkerStep == wk' # wk /\ pc # "loop"

\* The step in which Archive runs its rollback loop: Wait has returned.
RollbackStep == pc = "wait" /\ pc' = "loop"

\* Some ID leaves some seen set.
Removal == \E c \in ChanIDs : ~(Videos[c].ids \subseteq Videos'[c].ids)

\* C22: a seen set is changed only by the orchestrator.  A worker step
\* (taking a job, the return of a download, handing over the error list)
\* leaves every seen set unchanged; a seen set changes only in
\* reconciliation, in the visit callback, in the submission and in the
\* rollback loop; and the rollback loop, with every removal, runs after Wait
\* has returned, when no worker of the pool is still alive.
C22_SeenChangedByOrchestratorOnly ==
    [][/\ WorkerStep => Videos' = Videos
       /\ Videos' # Videos =>
             /\ pc \in {"new", "items", "submit", "wait"}
             /\ pc # "new" => \A c \in ChanIDs \ {Ch} : Videos'[c] = Videos[c]
       /\ (RollbackStep \/ Removal) =>
             /\ pc = "wait" /\ waitI = cfg.MaxParallel
             /\ PoolOver]_vars

\* A channel run with a failed download has ended: IDs were added to seen
\* while a worker downloaded, and the rollback loop has run over the
\* failure.
C22_Witness ==
    /\ RunEnded
    /\ \E d \in h.run.dl : d.err # <<>>
    /\ Len(h.run.submitted) >= 2
    /\ Videos[h.run.ch].ids # h.run.seenAtStart.ids

(***************************************************************************)
(* Order independence.                                                     *)
(***************************************************************************)
\* The jobs of the run and their outcomes: the downloads that returned.
\* What the cycle must leave behind is a function of the sequence of
\* submissions and of these outcomes alone.
FailedDownloads == {d \in h.run.dl : d.err # <<>>}

\* The seen set the rollback loop leaves: what enumeration started with,
\* plus the submitted IDs, minus the IDs the failures' video errors name.
SeenByOutcome ==
    (h.run.seenAtStart.ids \cup Range(h.run.submitted))
        \ {d.VideoID : d \in {x \in FailedDownloads : IsVideoError(x.err[1])}}

\* The download errors a run with these outcomes records, one per failed
\* job.
ErrorsByOutcome == FailureBag(h.run.dl)

\* The enumeration error of the run, if any.
EnumerationErrors ==
    LET S == {x \in BagToSet(h.recorded[h.run.ch]) : x.kind = "foreach"}
    IN  [x \in S |-> h.recorded[h.run.ch][x]]

\* The errors Archive holds for the channel of the run just ended.
ErrorsHeld ==
    LET I == {j \in DOMAIN err : err[j].ChannelID = h.run.ch}
    IN  IF I = {} THEN EmptyBag
        ELSE BagOfSeq(err[CHOOSE i \in I : TRUE].Errors)

\* C23: for a given sequence of submitted jobs and a given outcome of each
\* job, the seen set at the end of the cycle and the set of errors recorded
\* for the channel are the same whatever the interleaving of the workers
\* and the order in which the downloads complete: both are functions of the
\* submissions and the outcomes.
C23_OrderIndependent ==
    RunEnded =>
        /\ Videos[h.run.ch].ids = SeenByOutcome
        /\ ErrorsHeld = ErrorsByOutcome (+) EnumerationErrors
        /\ Cardinality({j \in DOMAIN err : err[j].ChannelID = h.run.ch}) <= 1

\* Two workers have reported on two jobs: the first submitted failed, the
\* second succeeded.
C23_Witness ==
    /\ RunEnded /\ cfg.MaxParallel = 2
    /\ Len(h.run.submitted) = 2
    /\ \E d \in FailedDownloads : d.VideoID = h.run.submitted[1]
    /\ \E d \in h.run.dl : d.VideoID = h.run.submitted[2] /\ d.err = <<>>
    /\ \A w \in Workers : h.run.sent[w] = 1

(***************************************************************************)
(* Enumeration errors.                                                     *)
(***************************************************************************)
\* The run that has just ended had its enumeration halted by an error.
HaltedRunEnded == RunEnded /\ EnumerationErrors # EmptyBag

\* C24: when a channel's enumeration halts with an error, the error is in
\* the channel's error collection, the pool has still been closed and
\* awaited (every worker has reported once and terminated), and every job
\* submitted before the halt has been executed and reconciled: the ID of
\* each one whose download succeeded is in seen.
C24_HaltStillDrainsPool ==
    HaltedRunEnded =>
        /\ \A x \in BagToSet(EnumerationErrors) : BagIn(x, ErrorsHeld)
        /\ closed /\ PoolOver
        /\ \A w \in Workers : h.run.sent[w] = 1
        /\ \A v \in Range(h.run.submitted) :
              /\ \E d \in h.run.dl : d.VideoID = v
              /\ \A d \in h.run.dl :
                    (d.VideoID = v /\ d.err = <<>>) => v \in Videos[h.run.ch].ids

(***************************************************************************)
(* The callback's error.                                                   *)
(***************************************************************************)
\* C25: if cmd reports an error for a video, enumeration stops at once: the
\* video is the last one visited (no later item of the page, no later
\* page), and Foreach has returned an error that carries cmd's; this holds
\* with Videos nil (every page is walked) and not nil (first page only).
C25_CallbackErrorHalts ==
    \A i \in DOMAIN h.run.visited :
        h.run.visited[i] \in cmdErrs =>
            /\ i = Len(h.run.visited)
            /\ pc = "close"
            /\ e # <<>> /\ e[1].cause = "cmd"
            /\ h.run.requests = fe.n

\* Full history, feed [A, B, C] in pages of 2: cmd failed on A, and
\* neither B, on the same page, nor C, on the next, was visited.
C25_Witness ==
    /\ fe.full /\ uploads[1] = <<"A", "B", "C">>
    /\ "A" \in cmdErrs
    /\ h.run.visited = <<"A">>
    /\ pc = "close" /\ e # <<>>
    /\ h.run.requests = 1

(***************************************************************************)
(* Rejected videos.                                                        *)
(***************************************************************************)
\* A visited video, not yet seen, that some configured selector,
\* channel-scoped or global, rejects, is not submitted and not added to
\* seen in the cycle.
RejectedNotSubmitted ==
    h.run.ch # 0 =>
        \A v \in Range(h.run.visited) :
            (v \notin h.run.seenAtStart.ids /\ ~PassesAll(h.run.ch, v)) =>
                /\ v \notin Range(h.run.submitted)
                /\ v \notin Videos[h.run.ch].ids

\* When a cycle's enumeration is complete, every video a selector has
\* rejected in this or an earlier cycle, that is still in the feed and not
\* upcoming, has been handed to the selectors in this cycle.
RejectedReevaluated ==
    EnumerationDone =>
        \A v \in h.rejected[Ch] :
            (v \in Range(uploads[Ch]) /\ v \notin h.run.liveAtStart) =>
                v \in h.run.evaluated

\* C26: a visited video rejected by any selector is neither submitted nor
\* added to seen in that cycle, and the selectors evaluate it again in
\* every later cycle in which it is still in the feed.
C26_RejectedSkippedAndReevaluated == RejectedNotSubmitted /\ RejectedReevaluated

(***************************************************************************)
(* Termination and leftovers.                                              *)
(***************************************************************************)
\* C27: every call to Archive returns.  The orchestrator is never blocked
\* for good in Submit: whenever it is sending a job, the queue has a free
\* slot or some worker of the pool is still taking or running jobs, also
\* after the context has been cancelled.
C27_SubmitNeverStuck ==
    pc = "submit" =>
        \/ Len(workChan) < cfg.MaxParallel
        \/ \E w \in Workers : wk[w].pc \in {"recv", "run"}

\* C28: when Archive returns, every worker started during the call has
\* reported its list and terminated; none is left blocked on a job queue
\* that is never closed, the pools of channels skipped on a cache miss
\* included.
C28_NoWorkerLeftBehind ==
    ret.done => leaked = 0 /\ PoolOver

\* C29: the videos on the pages a full-history enumeration had not walked
\* when it halted with an error are not lost: a later enumeration of the
\* channel that completes has walked the pages they are on.
C29_PartialHistoryWalkedAgain ==
    EnumerationDone => h.unvisited[Ch] \subseteq h.run.checked

====
